---- MODULE Spec2Model ----
(***************************************************************************)
(* Behringer XR18 snapshot sync (obs_xr18_sync.py): the command sender     *)
(* load_snapshot, the configuration handler script_update, the name        *)
(* discovery fetch_snapshot_names, the dock (sync button, one combo box    *)
(* per scene) and the scene-change handler, as a state machine.            *)
(*                                                                         *)
(* Python strings are sequences of one-character strings, so that          *)
(* startswith, endswith, split, isdigit, int and strip are computed as     *)
(* Python computes them.  The character U+00B2 (superscript two) is        *)
(* written "SUP2".                                                         *)
(***************************************************************************)
EXTENDS Integers, Sequences, FiniteSets, TLC

VARIABLES
    _client,    \* module global: None or the SimpleUDPClient's (host, port)
    _xr18_ip,   \* module global: the configured host
    _enabled,   \* module global: the "enabled" flag
    _settings,  \* module global: None or the OBS settings object
    last,       \* the most recent load_snapshot call: argument, path taken,
                \* value returned, datagrams handed to the client socket
    pc,         \* fetch_snapshot_names: position of the invocation
    ip,         \* fetch_snapshot_names: parameter ip
    names,      \* fetch_snapshot_names: local accumulator
    sock,       \* fetch_snapshot_names: local socket, "none"/"open"/"closed"
    i,          \* fetch_snapshot_names: loop variable of the query burst
    query,      \* fetch_snapshot_names: last datagram handed to sock.sendto
    data,       \* fetch_snapshot_names: datagram returned by sock.recvfrom
    ret,        \* fetch_snapshot_names: value returned to the caller
    exc,        \* fetch_snapshot_names: exception caught by the outer handler
    rcvd,       \* history: the first MaxRecv datagrams recvfrom returned
    nsent,      \* history: sendto calls of the invocation that returned
    nrecv,      \* history: recvfrom calls of the invocation, counted up to
                \* MaxRecv + 1
    waited,     \* history: milliseconds the invocation spent in time.sleep
                \* and in a recvfrom call that timed out
    _dock,      \* module global: None or the XR18Dock: the text of its
                \* button and, per scene, the combo box of its row
    cached,     \* settings object: the string "cached_snapshots"
    mapping,    \* settings object: the integers "map_scene_<scene>"
    pending,    \* the invocations of on_fetch_clicked that have not returned,
                \* innermost first: the local ip and the position
    sync,       \* the most recent on_fetch_clicked that returned: its local
                \* fetched
    recalls     \* the number of load_snapshot calls that the handler of the
                \* most recent scene-change event made

vars == <<_client, _xr18_ip, _enabled, _settings, last,
          pc, ip, names, sock, i, query, data, ret, exc, rcvd,
          nsent, nrecv, waited,
          _dock, cached, mapping, pending, sync, recalls>>

sender == <<_client, _xr18_ip, _enabled, _settings, last>>
fetch  == <<pc, ip, names, sock, i, query, data, ret, exc, rcvd,
            nsent, nrecv, waited>>
dock   == <<_dock, cached, mapping, pending, sync, recalls>>

----------------------------------------------------------------------------
(* Bounds of the model *)

\* number of received datagrams whose content is drawn from Incoming; any
\* further traffic is undecodable noise
MaxRecv == 3

\* number of on_fetch_clicked invocations that may be nested through
\* processEvents
MaxNest == 2

\* number of datagrams received during a sync that is taken as one step
MaxReplies == 1

----------------------------------------------------------------------------
(* Program constants *)

XR18_PORT == 10024
FirstSlot == 1
LastSlot  == 64
\* line 53: settimeout(0.5); line 60: time.sleep(0.005); in milliseconds
TimeoutMs == 500
SleepMs   == 5
DefaultIp == "192.168.1.15"
OtherIp   == "10.0.0.2"

\* Python's None
None == <<>>

----------------------------------------------------------------------------
(* Python str operations on sequences of characters *)

Decimal == <<"0", "1", "2", "3", "4", "5", "6", "7", "8", "9">>

DecimalChars == {Decimal[k] : k \in 1..10}

\* characters for which str.isdigit() is true: the decimal digits and the
\* digit-valued characters that are not decimals, such as U+00B2
DigitChars == DecimalChars \cup {"SUP2"}

Whitespace == {" ", "\t"}

DigitValue(c) == (CHOOSE k \in 1..10 : Decimal[k] = c) - 1

startswith(s, p) == Len(s) >= Len(p) /\ SubSeq(s, 1, Len(p)) = p

endswith(s, p) == Len(s) >= Len(p) /\ SubSeq(s, Len(s) - Len(p) + 1, Len(s)) = p

\* s.split("/"): the segments between the separators, empty ones included
split(s) ==
    LET seps == {k \in 1..Len(s) : s[k] = "/"}
        n == Cardinality(seps)
        \* position of the j-th separator; 0 and Len(s) + 1 close the ends
        pos(j) == IF j = 0 THEN 0
                  ELSE IF j = n + 1 THEN Len(s) + 1
                  ELSE CHOOSE k \in seps : Cardinality({m \in seps : m <= k}) = j
    IN  [j \in 1..(n + 1) |-> SubSeq(s, pos(j - 1) + 1, pos(j) - 1)]

isdigit(s) == Len(s) > 0 /\ \A k \in 1..Len(s) : s[k] \in DigitChars

\* int(s) raises ValueError unless every character is a decimal digit (the
\* strings it is given here hold no sign, blank or underscore)
IntRaises(s) == s = <<>> \/ \E k \in 1..Len(s) : s[k] \notin DecimalChars

\* int(s) for a string of decimal digits: the value of its first n digits
RECURSIVE DecimalValue(_, _)
DecimalValue(s, n) ==
    IF n = 0 THEN 0 ELSE 10 * DecimalValue(s, n - 1) + DigitValue(s[n])

int(s) == DecimalValue(s, Len(s))

\* s.strip(): s without its leading and trailing whitespace
strip(s) ==
    LET keep == {k \in 1..Len(s) : s[k] \notin Whitespace}
    IN  IF keep = {} THEN <<>>
        ELSE SubSeq(s, CHOOSE k \in keep : \A m \in keep : k <= m,
                       CHOOSE k \in keep : \A m \in keep : m <= k)

\* f"{i:02d}" for a non-negative i
RECURSIVE ToDecimal(_)
ToDecimal(n) ==
    IF n < 10 THEN <<Decimal[n + 1]>>
    ELSE ToDecimal(n \div 10) \o <<Decimal[(n % 10) + 1]>>

Format02d_M(n) == ToDecimal(n)
Format02d(n) == IF n < 10 THEN <<"0">> \o ToDecimal(n) ELSE ToDecimal(n)

----------------------------------------------------------------------------
(* OSC messages as the script builds and reads them.  A datagram is its     *)
(* address, its type tags and its encoded arguments; ok is FALSE for bytes  *)
(* that OscMessage cannot parse.                                            *)

\* a 32-bit big-endian two's complement integer, as OSC type "i"
Int32Bytes(n) ==
    <<(n \div 16777216) % 256, (n \div 65536) % 256, (n \div 256) % 256, n % 256>>

Int32Value(b) ==
    (IF b[1] >= 128 THEN b[1] - 256 ELSE b[1]) * 16777216
        + b[2] * 65536 + b[3] * 256 + b[4]

Datagram(address, tags, args) ==
    [ok |-> TRUE, address |-> address, tags |-> tags, args |-> args]

\* OscMessage(data).params
Params(d) ==
    [k \in 1..Len(d.tags) |->
        IF d.tags[k] = "i" THEN Int32Value(d.args[k]) ELSE d.args[k]]

SnapPrefix == <<"/", "-", "s", "n", "a", "p", "/">>
NameSuffix == <<"/", "n", "a", "m", "e">>
LoadAddress == SnapPrefix \o <<"l", "o", "a", "d">>

----------------------------------------------------------------------------
(* Command sender *)

Hosts == {DefaultIp, OtherIp}

\* values of the "xr18_ip" setting: unset/empty, or a host
IpSettings == {"", OtherIp}

\* snapshot ids load_snapshot is called with
SnapshotIds == {-1, 0, FirstSlot, LastSlot, LastSlot + 1}

NoCall == [id |-> 0, path |-> "none", ret |-> None, wire |-> <<>>]

\* line 94: the range test on osc_index
OutOfRange_M(osc_index) == osc_index < 0 \/ osc_index > LastSlot
OutOfRange(osc_index) == osc_index < FirstSlot \/ osc_index > LastSlot

\* line 98: the message send_message builds for ("/-snap/load", osc_index)
LoadMessage_M(osc_index) == Datagram(LoadAddress, <<"i">>, <<Int32Bytes(osc_index - 1)>>)
LoadMessage(osc_index) == Datagram(LoadAddress, <<"i">>, <<Int32Bytes(osc_index)>>)

\* lines 92, 95 and the end of the body: load_snapshot returns None on
\* every path
Returns(path) == None

\* _create_client: the client for the configured host, or None when the
\* constructor raises
create_client(host, raises) ==
    IF raises THEN None ELSE [host |-> host, port |-> XR18_PORT]


\* lines 90-101, the body of load_snapshot(snapshot_id); send_raises: whether
\* send_message raises
LoadOutcome(snapshot_id, send_raises) ==
         IF _client = None
         THEN [id |-> snapshot_id, path |-> "not_ready", ret |-> Returns("not_ready"), wire |-> <<>>]
         ELSE LET osc_index == snapshot_id IN
              IF OutOfRange(osc_index)
              THEN [id |-> snapshot_id, path |-> "out_of_range", ret |-> Returns("out_of_range"),
                    wire |-> <<>>]
              ELSE IF send_raises
              THEN [id |-> snapshot_id, path |-> "send_failed", ret |-> Returns("send_failed"),
                    wire |-> <<>>]
              ELSE [id |-> snapshot_id, path |-> "sent", ret |-> Returns("sent"),
                    wire |-> <<[dgram |-> LoadMessage(osc_index),
                                to |-> <<_client.host, _client.port>>]>>]

\* a call of load_snapshot
load_snapshot(snapshot_id, send_raises) ==
    /\ last' = LoadOutcome(snapshot_id, send_raises)
    /\ UNCHANGED <<_client, _xr18_ip, _enabled, _settings, fetch, dock>>

----------------------------------------------------------------------------
(* Name discovery: fetch_snapshot_names *)

\* str(v) of a decoded parameter: the string itself, or the decimal numeral
\* of an integer
ParamStr(d, k) ==
    LET v == Params(d)[k] IN
    IF d.tags[k] = "i"
    THEN (IF v < 0 THEN <<"-">> \o ToDecimal(0 - v) ELSE ToDecimal(v))
    ELSE v

\* line 57: f"/-snap/{i:02d}/name"
QueryAddress(n) == SnapPrefix \o Format02d(n) \o NameSuffix

\* lines 58-59: OscMessageBuilder(address=address).build().dgram
QueryMessage(n) == Datagram(QueryAddress(n), <<>>, <<>>)

\* line 71
IsNameReply(addr) == startswith(addr, SnapPrefix) /\ endswith(addr, NameSuffix)

\* line 76
SnapName_M(d) == ParamStr(d, 1)
SnapName(d) == strip(ParamStr(d, 1))

\* lines 65-78: what one received datagram does to the loop: "skip" (nothing
\* recorded, next iteration), "append" (entry recorded, next iteration) or
\* "raise" (int() raises ValueError out of the loop)
Skip == [kind |-> "skip", entry |-> <<>>]

Handle(d) ==
    IF ~d.ok THEN Skip
    ELSE LET addr == d.address IN
    IF ~IsNameReply(addr) THEN Skip
    ELSE LET parts == split(addr) IN
    IF ~(Len(parts) >= 4) THEN Skip
    ELSE LET idx_str == parts[3] IN
    IF ~(isdigit(idx_str) /\ Len(d.tags) > 0) THEN Skip
    ELSE LET snap_name == SnapName(d) IN
    IF snap_name = <<>> THEN Skip
    ELSE IF IntRaises(idx_str) THEN [kind |-> "raise", entry |-> <<>>]
    ELSE [kind |-> "append", entry |-> <<int(idx_str), snap_name>>]

\* line 86: names.sort(key=lambda x: x[0]), a stable sort: an entry comes
\* after the entries with a smaller index and after the earlier entries with
\* the same index
SortByIndex_M(s) == s
SortByIndex(s) ==
    LET n == Len(s)
        Rank(a) == 1 + Cardinality({b \in 1..n :
                          s[b][1] < s[a][1] \/ (s[b][1] = s[a][1] /\ b < a)})
    IN  [k \in 1..n |-> s[CHOOSE a \in 1..n : Rank(a) = k]]

\* line 83: except Exception
OuterCatches_M(e) == e = "timeout"
OuterCatches(e) == e \in {"OSError", "ValueError", "timeout"}

\* line 79: except socket.timeout
InnerCatches(e) == e = "timeout"

\* an exception raised inside the outer try: caught and logged at lines
\* 83-84, then lines 86-87 sort and return; uncaught, it reaches the caller
Raise(e) ==
    /\ exc' = e
    /\ IF OuterCatches(e)
       THEN ret' = SortByIndex(names) /\ pc' = "done"
       ELSE ret' = ret /\ pc' = "raised"

\* lines 47-49: the call binds the parameter; the locals are those of a new
\* frame
FetchCall_M(ip0) ==
    /\ pc \in {"idle", "done", "raised"}
    /\ ip' = ip0
    /\ names' = names
    /\ pc' = "socket"
    /\ sock' = "none"
    /\ i' = 0
    /\ query' = None
    /\ data' = None
    /\ ret' = None
    /\ exc' = ""
    /\ rcvd' = <<>>
    /\ nsent' = 0
    /\ nrecv' = 0
    /\ waited' = 0
FetchCall(ip0) ==
    /\ pc \in {"idle", "done", "raised"}
    /\ ip' = ip0
    /\ names' = <<>>
    /\ pc' = "socket"
    /\ sock' = "none"
    /\ i' = 0
    /\ query' = None
    /\ data' = None
    /\ ret' = None
    /\ exc' = ""
    /\ rcvd' = <<>>
    /\ nsent' = 0
    /\ nrecv' = 0
    /\ waited' = 0

\* a call of fetch_snapshot_names; no invocation is in flight
fetch_snapshot_names(ip0) ==
    /\ FetchCall(ip0)
    /\ UNCHANGED <<sender, dock>>

\* lines 52-54: socket(), settimeout(0.5), bind(("", 0))
fetch_socket(outcome) ==
    /\ pc = "socket"
    /\ IF outcome = "ok"
       THEN sock' = "open" /\ i' = FirstSlot /\ pc' = "send"
                 /\ UNCHANGED <<ret, exc>>
       ELSE /\ sock' = (IF outcome = "socket_raises" THEN "none" ELSE "open")
            /\ Raise("OSError")
            /\ i' = i
    /\ UNCHANGED <<ip, names, query, data, rcvd, nsent, nrecv, waited, sender, dock>>

\* line 56: range(1, 65) is exhausted after slot i
LastQuery_M(slot) == slot = LastSlot - 1
LastQuery(slot) == slot = LastSlot

\* lines 56-60: one iteration of the query burst, the sleep included
fetch_send(raises) ==
    /\ pc = "send"
    /\ IF raises
       THEN Raise("OSError") /\ UNCHANGED <<i, query, nsent, waited>>
       ELSE /\ query' = [dgram |-> QueryMessage(i), to |-> <<ip, XR18_PORT>>]
            /\ nsent' = nsent + 1
            /\ waited' = waited + SleepMs
            /\ i' = (IF LastQuery(i) THEN i ELSE i + 1)
            /\ pc' = (IF LastQuery(i) THEN "recv" ELSE "send")
            /\ UNCHANGED <<ret, exc>>
    /\ UNCHANGED <<ip, names, sock, data, rcvd, nrecv, sender, dock>>

\* datagrams the socket may deliver
Garbage == [ok |-> FALSE, address |-> <<>>, tags |-> <<>>, args |-> <<>>]

Reply(idx_str, name) ==
    Datagram(SnapPrefix \o idx_str \o NameSuffix, <<"s">>, <<name>>)

Incoming ==
    { Garbage,
      Datagram(<<"/", "i", "n", "f", "o">>, <<"s">>, <<<<"X">>>>),
      Datagram(QueryAddress(3), <<>>, <<>>),
      Reply(<<"0", "3">>, <<"W">>),
      Reply(<<"0", "3">>, <<" ", "C", " ">>),
      Reply(<<"6", "4">>, <<"B">>),
      Reply(<<"0", "3">>, <<" ">>),
      Reply(<<"0", "0">>, <<"X">>),
      Reply(<<"9", "9">>, <<"X">>),
      Reply(<<"SUP2">>, <<"X">>) }

\* traffic that may go on arriving without end
Noise == {Garbage}

\* one more recvfrom call
CountRecv == IF nrecv <= MaxRecv THEN nrecv + 1 ELSE nrecv

\* line 64: recvfrom returns a datagram
fetch_recv(d) ==
    /\ pc = "recv"
    /\ Len(rcvd) < MaxRecv \/ d \in Noise
    /\ data' = d
    /\ rcvd' = (IF Len(rcvd) < MaxRecv THEN Append(rcvd, d) ELSE rcvd)
    /\ pc' = "decode"
    /\ nrecv' = CountRecv
    /\ UNCHANGED <<ip, names, sock, i, query, ret, exc, nsent, waited, sender, dock>>

\* line 64 raises socket.timeout: lines 79-80 break, line 82 closes the
\* socket, lines 86-87 sort and return
fetch_timeout ==
    /\ pc = "recv"
    /\ InnerCatches("timeout")
    /\ sock' = "closed"
    /\ ret' = SortByIndex(names)
    /\ pc' = "done"
    /\ nrecv' = CountRecv
    /\ waited' = waited + TimeoutMs
    /\ UNCHANGED <<ip, names, i, query, data, exc, rcvd, nsent, sender, dock>>

\* line 64 raises another socket error
fetch_recv_error ==
    /\ pc = "recv"
    /\ ~InnerCatches("OSError")
    /\ Raise("OSError")
    /\ nrecv' = CountRecv
    /\ UNCHANGED <<ip, names, sock, i, query, data, rcvd, nsent, waited, sender, dock>>

\* lines 65-78: the received datagram is parsed and, if it is a name reply,
\* recorded
fetch_decode ==
    /\ pc = "decode"
    /\ LET h == Handle(data) IN
       IF h.kind = "raise"
       THEN Raise("ValueError") /\ names' = names
       ELSE /\ names' = (IF h.kind = "append" THEN Append(names, h.entry)
                         ELSE names)
            /\ pc' = "recv"
            /\ UNCHANGED <<ret, exc>>
    /\ UNCHANGED <<ip, sock, i, query, data, rcvd, nsent, nrecv, waited, sender, dock>>

----------------------------------------------------------------------------
(* The dock, the script entry points and the scene-change handler *)

\* the scenes obs_frontend_get_scenes() lists
Scenes == {"A", "B"}

\* lines 132 and 167 (without the leading glyph), line 157, line 191
SyncText == "Sync XR18 Snapshots"
FetchingText == "Fetching..."
NoneText == <<"(", "N", "o", "n", "e", ")">>

\* the list fetch_snapshot_names returns when recvfrom delivers the
\* datagrams h, in this order, before the call that ends the loop: lines
\* 65-78 applied to each until one raises, then lines 86-87
Accumulated(h) ==
    LET stop == {k \in 1..Len(h) : Handle(h[k]).kind = "raise"}
        kept == {k \in 1..Len(h) : /\ Handle(h[k]).kind = "append"
                                   /\ \A m \in stop : k < m}
        n == Cardinality(kept)
        nth(j) == CHOOSE k \in kept : Cardinality({m \in kept : m <= k}) = j
    IN  [j \in 1..n |-> Handle(h[nth(j)]).entry]

FetchResult(h) == SortByIndex(Accumulated(h))

\* line 163: json.dumps(fetched), the text of a JSON array holding one
\* two-element array per tuple; the empty string is <<>>
json_dumps(fetched) ==
    [array |-> [k \in 1..Len(fetched) |-> [array |-> fetched[k]]]]

\* line 110: [tuple(item) for item in json.loads(cached)]
json_loads_tuples(text) ==
    [k \in 1..Len(text.array) |-> text.array[k].array]

\* lines 104-113
get_cached_snapshots(settings, cached_snapshots) ==
    IF settings /= None /\ cached_snapshots /= <<>>
    THEN json_loads_tuples(cached_snapshots)
    ELSE <<>>

\* line 197: f"{snap_id:02d}: {snap_name}"
ItemText(snap_id, snap_name) == Format02d(snap_id) \o <<":", " ">> \o snap_name

\* lines 193-199: the index of the last snapshot whose id is the stored
\* value, counted with "(None)" at 0; 0 when there is none
CurrentIndex(current_snapshots, current_val) ==
    LET hits == {k \in 1..Len(current_snapshots) :
                     current_snapshots[k][1] = current_val}
    IN  IF hits = {} THEN 0 ELSE CHOOSE k \in hits : \A m \in hits : m <= k

\* lines 190-201: the combo box of one scene: its items (text, itemData)
\* and its current index
ComboBox(current_snapshots, current_val) ==
    [items |-> <<[text |-> NoneText, data |-> 0]>> \o
               [k \in 1..Len(current_snapshots) |->
                   [text |-> ItemText(current_snapshots[k][1], current_snapshots[k][2]),
                    data |-> current_snapshots[k][1]]],
     index |-> CurrentIndex(current_snapshots, current_val)]

\* lines 169-209: the rows after populate_ui
populate_ui(settings, cached_snapshots, map, rows) ==
    IF settings = None THEN rows
    ELSE [sn \in Scenes |->
             ComboBox(get_cached_snapshots(settings, cached_snapshots), map[sn])]

\* lines 212-253; window: PyQt6 is available and the application has a main
\* window
setup_dock(settings, window) ==
    IF _dock /= None \/ ~window THEN _dock
    ELSE [fetch_btn |-> SyncText,
          rows |-> populate_ui(settings, cached, mapping, <<>>)]

\* lines 308-317; raises: whether the client constructor raises
script_update(settings, raises, window) ==
    /\ _settings' = settings
    /\ _enabled' = settings.enabled
    /\ _xr18_ip' = (IF settings.xr18_ip /= "" THEN settings.xr18_ip ELSE DefaultIp)
    /\ _client' = create_client(_xr18_ip', raises)
    /\ _dock' = setup_dock(settings, window)
    /\ UNCHANGED <<last, fetch, cached, mapping, pending, sync, recalls>>

\* lines 320-323; OBS calls script_load once, before any other entry point
script_load(settings) ==
    /\ _settings = None
    /\ _settings' = settings
    /\ UNCHANGED <<_client, _xr18_ip, _enabled, last, fetch, dock>>

\* line 265
HandlesSceneChange_M(enabled, settings) == settings /= None
HandlesSceneChange(enabled, settings) == enabled /\ settings /= None

\* lines 264-278; has_scene: whether obs_frontend_get_current_scene()
\* returns a source, scene: its name
handle_scene_change(scene, has_scene, send_raises) ==
    LET snap_id == mapping[scene]
        calls == /\ HandlesSceneChange(_enabled, _settings)
                 /\ has_scene
                 /\ snap_id > 0
    IN  /\ last' = (IF calls THEN LoadOutcome(snap_id, send_raises) ELSE last)
        /\ recalls' = (IF calls THEN 1 ELSE 0)
        /\ UNCHANGED <<_client, _xr18_ip, _enabled, _settings, fetch,
                       _dock, cached, mapping, pending, sync>>

\* lines 259-261, for the event OBS_FRONTEND_EVENT_SCENE_CHANGED; line 323
\* registers the callback once line 322 has stored the settings
on_event(scene, has_scene, send_raises) ==
    /\ _settings /= None
    /\ handle_scene_change(scene, has_scene, send_raises)

\* line 156
FetchIp_M(settings) == DefaultIp
FetchIp(settings) ==
    IF settings.xr18_ip /= "" THEN settings.xr18_ip ELSE DefaultIp

\* lines 152-158: a click on the button, up to processEvents(), which lets
\* the handlers of other events run; a click is handled only while no
\* invocation of fetch_snapshot_names blocks the thread
on_fetch_clicked ==
    /\ _dock /= None
    /\ Len(pending) < MaxNest
    /\ pending /= <<>> => pending[1].at = "events"
    /\ IF _settings = None
       THEN UNCHANGED <<_dock, pending>>
       ELSE /\ pending' = <<[ip |-> FetchIp(_settings), at |-> "events"]>> \o pending
            /\ _dock' = [_dock EXCEPT !.fetch_btn = FetchingText]
    /\ UNCHANGED <<sender, fetch, cached, mapping, sync, recalls>>

\* line 161: if fetched
StoresResult_M(fetched) == TRUE
StoresResult(fetched) == fetched /= <<>>

\* lines 161-167: what the innermost invocation does with the list fetched
on_fetch_finish(fetched) ==
    /\ cached' = (IF StoresResult(fetched) THEN json_dumps(fetched) ELSE cached)
    /\ _dock' = [fetch_btn |-> SyncText,
                 rows |-> IF StoresResult(fetched)
                          THEN populate_ui(_settings, cached', mapping, _dock.rows)
                          ELSE _dock.rows]
    /\ sync' = [done |-> TRUE, fetched |-> fetched]
    /\ pending' = Tail(pending)
    /\ UNCHANGED <<sender, mapping, recalls>>

\* line 160: the innermost invocation calls fetch_snapshot_names(ip)
on_fetch_call ==
    /\ pending /= <<>>
    /\ pending[1].at = "events"
    /\ FetchCall(pending[1].ip)
    /\ pending' = <<[pending[1] EXCEPT !.at = "fetch"]>> \o Tail(pending)
    /\ UNCHANGED <<sender, _dock, cached, mapping, sync, recalls>>

\* lines 160-167: fetch_snapshot_names has returned
on_fetch_return ==
    /\ pending /= <<>>
    /\ pending[1].at = "fetch"
    /\ pc = "done"
    /\ on_fetch_finish(ret)
    /\ UNCHANGED fetch

\* lines 160-167 in one step: the call of fetch_snapshot_names, during which
\* recvfrom delivers the datagrams h, and what follows its return
on_fetch_resume(h) ==
    /\ pending /= <<>>
    /\ pending[1].at = "events"
    /\ on_fetch_finish(FetchResult(h))
    /\ UNCHANGED fetch

\* lines 203-207: the user selects another item of the combo box of a scene
combo_changed(scene) ==
    /\ _dock /= None
    /\ \E index \in 0..(Len(_dock.rows[scene].items) - 1) :
          /\ index /= _dock.rows[scene].index
          /\ _dock' = [_dock EXCEPT !.rows[scene].index = index]
          /\ mapping' = [mapping EXCEPT
                            ![scene] = _dock.rows[scene].items[index + 1].data]
    /\ UNCHANGED <<sender, fetch, cached, pending, sync, recalls>>

----------------------------------------------------------------------------
(* Specification *)

Settings == [xr18_ip : IpSettings, enabled : BOOLEAN]

NoSync == [done |-> FALSE, fetched |-> <<>>]

Init ==
    /\ _client = None
    /\ _xr18_ip = DefaultIp
    /\ _enabled = TRUE
    /\ _settings = None
    /\ last = NoCall
    /\ pc = "idle"
    /\ ip = DefaultIp
    /\ names = <<>>
    /\ sock = "none"
    /\ i = 0
    /\ query = None
    /\ data = None
    /\ ret = None
    /\ exc = ""
    /\ rcvd = <<>>
    /\ nsent = 0
    /\ nrecv = 0
    /\ waited = 0
    /\ _dock = None
    /\ cached = <<>>
    /\ mapping = [sn \in Scenes |-> 0]
    /\ pending = <<>>
    /\ sync = NoSync
    /\ recalls = 0

\* the steps of an invocation of fetch_snapshot_names in flight
FetchStepOn(arriving) ==
    \/ \E outcome \in {"ok", "socket_raises", "bind_raises"} : fetch_socket(outcome)
    \/ \E raises \in BOOLEAN : fetch_send(raises)
    \/ \E d \in arriving : fetch_recv(d)
    \/ fetch_timeout
    \/ fetch_recv_error
    \/ fetch_decode

FetchStep == FetchStepOn(Incoming)

\* the configuration handler and the command sender
SenderNext ==
    \/ \E settings \in Settings, raises, window \in BOOLEAN :
          script_update(settings, raises, window)
    \/ \E id \in SnapshotIds, send_raises \in BOOLEAN : load_snapshot(id, send_raises)

\* the name discovery: calls of fetch_snapshot_names and their steps
FetchNext ==
    \/ \E ip0 \in Hosts : fetch_snapshot_names(ip0)
    \/ FetchStep

\* datagrams that arrive during a sync started from the dock
DockIncoming == {Reply(<<"0", "3">>, <<"W">>), Reply(<<"9", "9">>, <<"X">>)}

Histories(arriving) == UNION {[1..n -> arriving] : n \in 0..MaxReplies}

\* settings of a session in which the host is left at its default
DockSettings == [xr18_ip : {""}, enabled : BOOLEAN]

\* the dock and the scene changes, a sync taken as two steps: the click and
\* what follows processEvents()
DockNext ==
    \/ \E settings \in DockSettings : script_load(settings)
    \/ \E settings \in DockSettings, raises \in BOOLEAN :
          script_update(settings, raises, TRUE)
    \/ \E scene \in Scenes, has_scene, send_raises \in BOOLEAN :
          on_event(scene, has_scene, send_raises)
    \/ on_fetch_clicked
    \/ \E h \in Histories(DockIncoming) : on_fetch_resume(h)
    \/ \E scene \in Scenes : combo_changed(scene)

\* datagrams that arrive during a discovery that recalls and configuration
\* changes interleave with
FewIncoming == {Reply(<<"0", "3">>, <<"W">>)}

\* settings of a session in which the plugin is left enabled
HostSettings == [xr18_ip : IpSettings, enabled : {TRUE}]

\* a sync started from the dock, step by step, with configuration changes
\* and recalls at any point of it
ConcurrentNext ==
    \/ \E settings \in HostSettings : script_update(settings, FALSE, TRUE)
    \/ load_snapshot(FirstSlot, FALSE)
    \/ on_fetch_clicked
    \/ on_fetch_call
    \/ FetchStepOn(FewIncoming)
    \/ on_fetch_return

Next == SenderNext \/ FetchNext \/ DockNext \/ ConcurrentNext

Spec == Init /\ [][Next]_vars

\* The sender and the discovery share no variable (load_snapshot and
\* script_update leave the discovery's locals alone, fetch_snapshot_names
\* takes its host as a parameter and uses its own socket), so each is also
\* specified alone, with the other at rest.
SenderSpec == Init /\ [][SenderNext]_vars

FetchSpec == Init /\ [][FetchNext]_vars

\* an invocation in flight keeps running: every blocking call in it returns
\* or raises
FairFetchSpec == FetchSpec /\ WF_vars(FetchStep)

\* The handlers run on one thread: while fetch_snapshot_names blocks it, no
\* other handler runs, so a sync is the click and, after the events that
\* processEvents() dispatches, one step for the rest.
DockSpec == Init /\ [][DockNext]_vars

\* The same sync with the invocation of fetch_snapshot_names step by step,
\* and recalls and configuration changes allowed between any two steps.
ConcurrentSpec == Init /\ [][ConcurrentNext]_vars

----------------------------------------------------------------------------
(* Properties of the command sender *)

Slots == 1..64

\* the last load_snapshot call got past the client test of line 91
ClientExisted == last.path \in {"out_of_range", "send_failed", "sent"}

\* the datagram is a "/-snap/load" message with the one integer argument n
IsLoadOf(d, n) ==
    /\ d.ok
    /\ d.address = LoadAddress
    /\ d.tags = <<"i">>
    /\ Params(d) = <<n>>

\* C1: a load_snapshot call with an index outside 1..64 hands no datagram
\* to the socket, whatever the client handle is, and no "/-snap/load"
\* message with an argument outside 1..64 is ever sent.
C1_OutOfRangeSendsNothing ==
    /\ (last.path /= "none" /\ last.id \notin Slots) => last.wire = <<>>
    /\ \A k \in 1..Len(last.wire) :
          last.wire[k].dgram.address = LoadAddress
              => Params(last.wire[k].dgram)[1] \in Slots

C1_Witness ==
    /\ ClientExisted
    /\ last.id = 0
    /\ last.wire = <<>>

\* C2 as stated: with the client handle present, load_snapshot(n) for n in
\* 1..64 emits exactly one datagram, "/-snap/load" with the integer n.
C2_ExactlyOneDatagram ==
    (ClientExisted /\ last.id \in Slots) =>
        /\ Len(last.wire) = 1
        /\ IsLoadOf(last.wire[1].dgram, last.id)

\* C2 amended: with the client handle present, load_snapshot(n) for n in
\* 1..64 emits exactly one datagram, "/-snap/load" with the integer n
\* itself, unless send_message raises; then it emits none.
C2_OneDatagramUnlessSendRaises ==
    (ClientExisted /\ last.id \in Slots) =>
        IF last.path = "send_failed"
        THEN last.wire = <<>>
        ELSE /\ Len(last.wire) = 1
             /\ IsLoadOf(last.wire[1].dgram, last.id)

C2_Witness ==
    /\ last.path = "sent"
    /\ last.id = 64
    /\ Len(last.wire) = 1
    /\ Int32Value(last.wire[1].dgram.args[1]) = 64

\* C10: with the client handle absent, load_snapshot sends nothing and
\* returns a value that differs from the one a successful send returns.
C10_NotReadySignalled ==
    last.path = "not_ready" =>
        /\ last.wire = <<>>
        /\ last.ret /= Returns("sent")

\* C11: a load_snapshot call that ends without a datagram because the index
\* failed the range test or because send_message raised returns a value
\* that differs from the one a successful send returns.
C11_FailedRecallReported ==
    last.path \in {"out_of_range", "send_failed"} =>
        /\ last.wire = <<>>
        /\ last.ret /= Returns("sent")

\* the conditions under which the claim lets a scene change to S recall
RecallExpected(S) ==
    /\ _enabled
    /\ _settings /= None
    /\ _client /= None
    /\ mapping[S] \in Slots

\* the handler that has just run made one load_snapshot call, which handed
\* to the socket exactly the message "/-snap/load" m, for the client's host
EmitsLoad(m) ==
    /\ recalls' = 1
    /\ Len(last'.wire) = 1
    /\ IsLoadOf(last'.wire[1].dgram, m)
    /\ last'.wire[1].to = <<_client.host, XR18_PORT>>

\* the handler that has just run handed no datagram to the socket
EmitsNothing == recalls' = 0 \/ last'.wire = <<>>

\* C16 as stated: the handler of a scene change to S makes at most one
\* load_snapshot call, and emits the "/-snap/load" datagram of slot m if the
\* plugin is enabled, the settings are present, the client exists and S is
\* mapped to m in 1..64; otherwise it emits nothing.
C16_RecallIffMapped ==
    [][\A S \in Scenes, send_raises \in BOOLEAN :
          handle_scene_change(S, TRUE, send_raises) =>
             /\ recalls' \in {0, 1}
             /\ IF RecallExpected(S) THEN EmitsLoad(mapping[S]) ELSE EmitsNothing]_vars

\* C16 amended: the same, with the datagram emitted only if, in addition,
\* send_message does not raise.
C16_RecallIffMappedUnlessSendRaises ==
    [][\A S \in Scenes, send_raises \in BOOLEAN :
          handle_scene_change(S, TRUE, send_raises) =>
             /\ recalls' \in {0, 1}
             /\ IF RecallExpected(S) /\ ~send_raises
                THEN EmitsLoad(mapping[S])
                ELSE EmitsNothing]_vars

C16_Witness ==
    /\ recalls = 1
    /\ _enabled
    /\ mapping["A"] = 3
    /\ mapping["B"] = 0
    /\ last.id = 3
    /\ last.path = "sent"
    /\ Int32Value(last.wire[1].dgram.args[1]) = 3

\* the step in which an invocation of on_fetch_clicked returns, with its
\* local fetched in sync'
SyncReturns == Len(pending') < Len(pending)

\* C19: a sync whose discovery returns the empty list leaves the cached
\* list, the rows of the dock and the mappings as they were; the cached list
\* changes only in a sync whose discovery returned a non-empty list, and
\* then reads back as that list; a sync starts, and its discovery runs, only
\* with a settings object.
C19_EmptySyncChangesNothing ==
    [][/\ (SyncReturns /\ sync'.fetched = <<>>) =>
             /\ cached' = cached
             /\ mapping' = mapping
             /\ _dock'.rows = _dock.rows
       /\ cached' /= cached =>
             /\ SyncReturns
             /\ sync'.fetched /= <<>>
             /\ get_cached_snapshots(_settings', cached') = sync'.fetched
       /\ pending' /= pending => _settings /= None]_vars

C19_Witness ==
    /\ sync.done
    /\ sync.fetched = <<>>
    /\ pending = <<>>
    /\ get_cached_snapshots(_settings, cached) = << <<3, <<"W">>>> >>
    /\ mapping["A"] = 3
    /\ _dock.rows["A"].index = 1

\* the slot of the item that the combo box of scene S shows as selected; 0
\* is "(None)"
Displayed(S) == _dock.rows[S].items[_dock.rows[S].index + 1].data

\* C20: whenever the handler of a scene change to S calls load_snapshot, it
\* passes the slot that the dock shows as selected for S; so a scene shown
\* as "(None)" triggers no recall.
C20_RecallMatchesDock ==
    [][\A S \in Scenes, send_raises \in BOOLEAN :
          (/\ _dock /= None
           /\ handle_scene_change(S, TRUE, send_raises)
           /\ recalls' = 1)
              => Displayed(S) = last'.id]_vars

----------------------------------------------------------------------------
(* Properties of the name discovery *)

\* d is a name reply for slot s: the query's address, one string argument
IsReplyFor(d, s) ==
    /\ d.ok
    /\ d.address = QueryAddress(s)
    /\ d.tags = <<"s">>

\* d is a name reply for some slot number of two decimal digits
IsReply(d) == \E s \in 0..99 : IsReplyFor(d, s)

SlotOf(d) == CHOOSE s \in 0..99 : IsReplyFor(d, s)

Blank(s) == \A k \in 1..Len(s) : s[k] \in Whitespace

Trimmed(s) == s /= <<>> /\ s[1] \notin Whitespace /\ s[Len(s)] \notin Whitespace

\* d carries a name that is not empty or blank
HasName(d) == d.ok /\ Len(d.tags) > 0 /\ d.tags[1] = "s" /\ ~Blank(d.args[1])

Ascending(s) == \A a, b \in 1..Len(s) : a < b => s[a][1] < s[b][1]

Returned == pc = "done"

\* C3: every invocation of fetch_snapshot_names eventually returns.
C3_DiscoveryReturns == (pc = "socket") ~> Returned

\* C4: the returned list has at most one entry per slot, and the entry of a
\* slot carries the name of the last reply received for it.
C4_OneEntryPerSlot ==
    Returned =>
        /\ \A a, b \in 1..Len(ret) : a /= b => ret[a][1] /= ret[b][1]
        /\ \A a \in 1..Len(ret) : \A k \in 1..Len(rcvd) :
              (/\ IsReplyFor(rcvd[k], ret[a][1]) /\ HasName(rcvd[k])
               /\ \A m \in (k + 1)..Len(rcvd) :
                      ~(IsReplyFor(rcvd[m], ret[a][1]) /\ HasName(rcvd[m])))
                  => ret[a][2] = strip(rcvd[k].args[1])

\* C5: every index in the returned list lies in 1..64.
C5_IndicesInRange ==
    Returned => \A a \in 1..Len(ret) : ret[a][1] \in Slots

\* the replies received are name replies of distinct slots in 1..64, each
\* with a name
OnlyDistinctSlotsAnswered ==
    /\ \A k \in 1..Len(rcvd) :
          IsReply(rcvd[k]) /\ SlotOf(rcvd[k]) \in Slots /\ HasName(rcvd[k])
    /\ \A k, m \in 1..Len(rcvd) : k /= m => SlotOf(rcvd[k]) /= SlotOf(rcvd[m])

\* C6: when only replies of distinct slots, each with a name, were received,
\* the returned list holds exactly the pairs (slot, name) of the replies
\* received, in strictly ascending slot order.
C6_ExactlyTheRepliesAscending ==
    (Returned /\ OnlyDistinctSlotsAnswered) =>
        /\ Len(ret) = Len(rcvd)
        /\ Ascending(ret)
        /\ {ret[a] : a \in 1..Len(ret)}
              = {<<SlotOf(rcvd[k]), strip(rcvd[k].args[1])>> : k \in 1..Len(rcvd)}

C6_Witness ==
    /\ Returned
    /\ rcvd = <<Reply(<<"6", "4">>, <<"B">>), Reply(<<"0", "3">>, <<"W">>)>>
    /\ ret = << <<3, <<"W">>>>, <<64, <<"B">>>> >>

\* C7: no entry of the accumulator or of the returned list has an empty name
\* or a name with leading or trailing whitespace, and replies without a
\* name (no argument, empty, blank) are not recorded.
C7_NamesTrimmedNonEmpty ==
    /\ \A a \in 1..Len(names) : Trimmed(names[a][2])
    /\ \A a \in 1..Len(ret) : Trimmed(ret[a][2])
    /\ Len(names) <= Cardinality({k \in 1..Len(rcvd) : HasName(rcvd[k])})

C7_Witness ==
    /\ Returned
    /\ exc = ""
    /\ rcvd = <<Reply(<<"0", "3">>, <<" ">>), Datagram(QueryAddress(3), <<>>, <<>>),
                Reply(<<"0", "3">>, <<" ", "C", " ">>)>>
    /\ ret = << <<3, <<"C">>>> >>

\* C8: a received datagram that is not a name reply (undecodable, another
\* address, no decimal slot number) is skipped: the accumulator is unchanged
\* and the receive loop goes on.
C8_MalformedSkipped ==
    [][(pc = "decode" /\ pc' /= "decode" /\ ~IsReply(data))
          => (pc' = "recv" /\ names' = names)]_vars

\* C9: no exception reaches the caller of fetch_snapshot_names; when a
\* socket error ended the invocation it has returned the entries
\* accumulated so far, in ascending slot order.
C9_NeverFailsOutright ==
    /\ pc /= "raised"
    /\ (Returned /\ exc = "OSError") =>
          /\ Len(ret) = Len(names)
          /\ \A a, b \in 1..Len(ret) : a < b => ret[a][1] <= ret[b][1]
          /\ \A e \in {names[a] : a \in 1..Len(names)} :
                Cardinality({a \in 1..Len(ret) : ret[a] = e})
                    = Cardinality({a \in 1..Len(names) : names[a] = e})

C9_Witness ==
    /\ Returned
    /\ exc = "OSError"
    /\ sock = "open"
    /\ Len(ret) = 2
    /\ ret[1][1] < ret[2][1]
    /\ names /= ret

\* what fetch_snapshot_names returns when it completes normally (the receive
\* loop ends on a timeout) and no reply was recorded
ZeroReplies == SortByIndex(<<>>)

\* C12: an invocation that a socket error ended returns a value that
\* differs from the one a normal completion with zero replies returns.
C12_ErrorDistinctFromZeroReplies ==
    (Returned /\ exc = "OSError") => ret /= ZeroReplies

\* the endpoint stayed silent and no call of the invocation raised an error:
\* recvfrom delivered nothing and the invocation returned normally
SilentEndpoint == Returned /\ exc = "" /\ rcvd = <<>>

\* C13: against an endpoint that never replies, the invocation has sent its
\* 64 queries, made exactly one recvfrom call (the one that timed out) and
\* returned the empty list, having spent at most 64 sleeps plus one receive
\* timeout.
C13_SilentEndpointBounded ==
    SilentEndpoint =>
        /\ nsent = 64
        /\ nrecv = 1
        /\ sock = "closed"
        /\ Len(ret) = 0
        /\ waited <= 64 * SleepMs + TimeoutMs

C13_Witness ==
    /\ SilentEndpoint
    /\ nrecv = 1
    /\ waited = 820

\* the address "/-snap/NN/name", NN the two decimal digits of slot
NamePath(slot) ==
    SnapPrefix \o <<Decimal[(slot \div 10) + 1], Decimal[(slot % 10) + 1]>> \o NameSuffix

\* C17: the k-th query handed to the socket is the message "/-snap/NN/name"
\* of slot k, without arguments, k = 1, 2, ..., 64; a sleep follows every
\* send; and recvfrom is not called before the 64 queries have been sent.
C17_AscendingBurstThenReceive ==
    [][/\ nsent' = nsent + 1 =>
             /\ nsent' \in Slots
             /\ query'.dgram = Datagram(NamePath(nsent'), <<>>, <<>>)
             /\ query'.to = <<ip, XR18_PORT>>
             /\ waited' = waited + SleepMs
             /\ nrecv' = 0
       /\ nrecv' /= nrecv /\ nrecv' /= 0 => nsent = 64 /\ nsent' = 64]_vars

C17_Witness ==
    /\ pc = "recv"
    /\ nsent = 64
    /\ nrecv = 0
    /\ waited = 320
    /\ query.dgram.address = <<"/", "-", "s", "n", "a", "p", "/", "6", "4", "/", "n", "a", "m", "e">>
    /\ query.dgram.tags = <<>>

\* C18: no invocation has returned while its socket is still open.
C18_SocketClosedOnReturn ==
    Returned => sock /= "open"

----------------------------------------------------------------------------
(* Properties of a discovery with recalls and configuration changes around it *)

InFlight == {"socket", "send", "recv", "decode"}

\* a step of the command sender or of the configuration handler
SenderStep == last' /= last \/ _client' /= _client \/ _xr18_ip' /= _xr18_ip

\* a call of fetch_snapshot_names
CallStep == pc' = "socket" /\ pc /= "socket"

\* C14: a call of fetch_snapshot_names starts with an empty accumulator and
\* no socket, whatever earlier or enclosing invocations left; the steps of
\* an invocation leave the sender's client alone and the sender's steps
\* leave the invocation's socket, accumulator and position alone; and the
\* list an invocation returns is the one that the datagrams it received
\* determine, whatever recalls, configuration changes and nested syncs
\* happened around it.
C14_DiscoveryUndisturbed ==
    [][/\ CallStep => names' = <<>> /\ sock' = "none" /\ rcvd' = <<>>
       /\ pc' /= pc => _client' = _client /\ last' = last
       /\ SenderStep =>
             /\ pc' = pc
             /\ names' = names
             /\ sock' = sock
             /\ rcvd' = rcvd
             /\ ret' = ret
       /\ pc' = "done" => ret' = FetchResult(rcvd')]_vars

C14_Witness ==
    /\ Returned
    /\ Len(pending) = 1
    /\ pending[1].at = "fetch"
    /\ sync.done
    /\ sync.fetched = << <<3, <<"W">>>>, <<3, <<"W">>>> >>
    /\ ret = << <<3, <<"W">>>> >>
    /\ last.path = "sent"
    /\ last.wire[1].to[1] /= ip

\* C15: a load_snapshot call sends to the host configured at the time of
\* the call; a sync reads the configured host when it starts; and the
\* invocation of fetch_snapshot_names it makes keeps that host to its end:
\* every query goes to it, whatever script_update does meanwhile.
C15_HostReadOnceAtStart ==
    [][/\ (last' /= last /\ last'.path = "sent") =>
             last'.wire[1].to = <<_xr18_ip, XR18_PORT>>
       /\ Len(pending') > Len(pending) => pending'[1].ip = _xr18_ip
       /\ CallStep => ip' = pending'[1].ip
       /\ (pc \in InFlight /\ pc' \in InFlight \cup {"done"}) => ip' = ip
       /\ nsent' = nsent + 1 => query'.to = <<pending[1].ip, XR18_PORT>>]_vars

C15_Witness ==
    /\ pc = "send"
    /\ nsent = 63
    /\ pending[1].ip = DefaultIp
    /\ query.to[1] = DefaultIp
    /\ _xr18_ip = OtherIp
    /\ last.path = "sent"
    /\ last.wire[1].to[1] = OtherIp

====
